---- MODULE Spec2Model ----
(***************************************************************************)
(* SafeSEOThumbnailBackend.get_thumbnail (custom_sorl_thumbnail/backends.py) *)
(* run by several workers against one shared storage and one shared        *)
(* key-value store, all calls asking for the same (source, geometry,       *)
(* options), hence for the same destination name.                          *)
(*                                                                         *)
(* A worker is one call of get_thumbnail.  Every statement that reads or   *)
(* writes the shared storage or kvstore is one action, labelled in pc by   *)
(* its source line; statements that touch only the call's own locals are   *)
(* taken together with their neighbours.  The collaborators (storage,      *)
(* kvstore, engine) are modelled by their observable effect at the call    *)
(* site.                                                                   *)
(*                                                                         *)
(* The pure parts of the file have their own specifications further down:  *)
(* the option merge of get_thumbnail (SpecOptions), the namer              *)
(* _get_thumbnail_filename (SpecNamer) and the transforms (SpecTransforms).*)
(* Each keeps its state in one record, which is Off in the other           *)
(* specifications.                                                         *)
(***************************************************************************)
EXTENDS Integers, FiniteSets, Sequences, TLC

\* number of concurrent workers calling get_thumbnail
NumWorkers == 2

Workers == 1..NumWorkers

\* storage names: the name computed on line 87, and the alternative name a
\* storage that does not overwrite (comment on lines 93-94) gives the file
\* written by worker w when the destination name is already taken
DestName == 0
AltName(w) == w
FileNames == {DestName} \cup {AltName(w) : w \in Workers}

NoFile == "none"
NoEntry == "absent"

VARIABLES
    srcState,      \* the source file: "ok", "corrupt" (present, undecodable), "missing"
    dummyMode,     \* settings.THUMBNAIL_DUMMY
    autocropOpt,   \* options['autocrop'] of the request
    overwriteSafe, \* whether storage.save replaces an existing name in place
    files,         \* storage: name -> content ("none" | "old" | "new")
    dirExists,     \* os.path.exists(directory of the destination)
    kvThumb,       \* kvstore entry of the rendition ("absent" | "old" | "new")
    kvSrc,         \* kvstore entry of the source    ("absent" | "old" | "new")
    pc,            \* per worker: "start", the line of get_thumbnail it is at, or "done"
    fileArg,       \* per worker: the call was made with a truthy file_
    cached,        \* per worker: local `cached` (line 89) is truthy
    found,         \* per worker: what thumbnail.exists() on line 95 said: "unk" | "yes" | "no"
    raster,        \* per worker: source_image: "none" | "open" | "released"
    ops,           \* per worker: the operations the call has performed
    result,        \* per worker: what the call returned, "raised", or "none" so far
    afterSuccess,  \* per worker: the call began after some call had returned a rendition
    succeeded,     \* some call has returned a rendition (line 91 or line 151)
    gens,          \* per worker: completed decode..write sequences
    updaters,      \* workers that have completed the cache update pair (149-150)
    files0,        \* storage as it was before the first call
    kvThumb0,      \* rendition entry as it was before the first call
    kvSrc0,        \* source entry as it was before the first call
    om,            \* the option merge of one call (SpecOptions)
    nm,            \* one run of the namer (SpecNamer)
    tf             \* one application of a transform (SpecTransforms)

\* what no step of a get_thumbnail call changes
env == <<srcState, dummyMode, autocropOpt, overwriteSafe, files0, kvThumb0, kvSrc0,
         om, nm, tf>>
shared == <<files, dirExists, kvThumb, kvSrc>>
locals == <<pc, fileArg, cached, found, raster, ops, result, afterSuccess>>
history == <<succeeded, gens, updaters>>
vars == <<env, shared, locals, history>>

Off == [stage |-> "off"]

Contents == {NoFile, "old", "new"}
Entries == {NoEntry, "old", "new"}
Results == {"none", "None", "dummy", "cached", "thumbnail", "notfound", "raised"}
Lines == {"start", "l89", "l90", "l95", "l98", "l129", "l131", "l137", "l139",
          "l144", "l150", "done"}
OpNames == {"kvget", "exists", "decode", "info", "autocrop", "mkdir", "oserror", "eexist",
            "write", "altres", "cleanup", "mtime", "kv_src", "kv_thumb"}

TypeOK ==
    /\ srcState \in {"ok", "corrupt", "missing"}
    /\ dummyMode \in BOOLEAN /\ autocropOpt \in BOOLEAN /\ overwriteSafe \in BOOLEAN
    /\ files \in [FileNames -> Contents]
    /\ dirExists \in BOOLEAN
    /\ kvThumb \in Entries /\ kvSrc \in Entries
    /\ pc \in [Workers -> Lines]
    /\ fileArg \in [Workers -> BOOLEAN]
    /\ cached \in [Workers -> BOOLEAN]
    /\ found \in [Workers -> {"unk", "yes", "no"}]
    /\ raster \in [Workers -> {"none", "open", "released"}]
    /\ ops \in [Workers -> SUBSET OpNames]
    /\ result \in [Workers -> Results]
    /\ afterSuccess \in [Workers -> BOOLEAN]
    /\ succeeded \in BOOLEAN
    /\ gens \in [Workers -> Nat]
    /\ updaters \subseteq Workers

\* The state before any call.  The rendition may already be in storage (from an
\* earlier run, content "old"), the cache may hold entries from an earlier run
\* or none (flushed), and an entry may be stale (entry present, file deleted).
Init ==
    /\ srcState \in {"ok", "corrupt", "missing"}
    /\ dummyMode \in BOOLEAN
    /\ autocropOpt \in BOOLEAN
    /\ overwriteSafe \in BOOLEAN
    /\ \E c \in {NoFile, "old"} :
         files = [n \in FileNames |-> IF n = DestName THEN c ELSE NoFile]
    /\ dirExists \in BOOLEAN
    /\ files[DestName] # NoFile => dirExists
    /\ kvThumb \in {NoEntry, "old"}
    /\ kvSrc \in {NoEntry, "old"}
    /\ pc = [w \in Workers |-> "start"]
    /\ fileArg = [w \in Workers |-> FALSE]
    /\ cached = [w \in Workers |-> FALSE]
    /\ found = [w \in Workers |-> "unk"]
    /\ raster = [w \in Workers |-> "none"]
    /\ ops = [w \in Workers |-> {}]
    /\ result = [w \in Workers |-> "none"]
    /\ afterSuccess = [w \in Workers |-> FALSE]
    /\ succeeded = FALSE
    /\ gens = [w \in Workers |-> 0]
    /\ updaters = {}
    /\ files0 = files
    /\ kvThumb0 = kvThumb
    /\ kvSrc0 = kvSrc
    /\ om = Off /\ nm = Off /\ tf = Off

----------------------------------------------------------------------------
(* Decisions of get_thumbnail, as the code computes them *)

\* as NoFileResult, forgetting the THUMBNAIL_DUMMY branch
NoFileResult_AlwaysNone(dummy) == "None"

\* lines 65-70: no file reference: the dummy if THUMBNAIL_DUMMY, else None
NoFileResult(dummy) == IF dummy THEN "dummy" ELSE "None"

\* as FastPathHit, with the fast path never taken
FastPathHit_Never(c, e) == FALSE

\* as FastPathHit, without the existence check (`if cached:`)
FastPathHit_CachedOnly(c, e) == c

\* line 90: `if cached and cached.exists()`
FastPathHit(c, e) == c /\ e

\* as NeedsGeneration, generating whether or not the file exists
NeedsGeneration_Always(e) == TRUE

\* as NeedsGeneration, with the condition inverted
NeedsGeneration_Inverted(e) == e

\* line 95: `if not thumbnail.exists()`
NeedsGeneration(e) == ~e

\* as DecodeFailResult, forgetting the THUMBNAIL_DUMMY branch
DecodeFailResult_NoDummy(dummy) == "notfound"

\* lines 99-110: IOError from engine.get_image: the dummy if THUMBNAIL_DUMMY,
\* else the descriptor of the computed name, whose file was never written
DecodeFailResult(dummy) == IF dummy THEN "dummy" ELSE "notfound"

\* line 144: os.path.getmtime of the source raises OSError when the file is gone
MtimeRaises(s) == s = "missing"

\* as GetOrSetValue, overwriting what is stored
GetOrSetValue_Overwrite(cur, new) == new

\* line 149: kvstore.get_or_set(source) stores the source only if none is stored
GetOrSetValue(cur, new) == IF cur = NoEntry THEN new ELSE cur

\* as SetValue, keeping an entry that is already stored
SetValue_KeepExisting(cur, new) == IF cur = NoEntry THEN new ELSE cur

\* line 150: kvstore.set(thumbnail, source) stores the rendition unconditionally
SetValue(cur, new) == new

\* lines 137-138 with the comment of lines 93-94: the name the storage saves
\* under; a storage that does not overwrite picks another name when the
\* destination name is taken
SaveName(w, taken, safe) == IF taken /\ ~safe THEN AltName(w) ELSE DestName

Exists(n) == files[n] # NoFile

----------------------------------------------------------------------------
(* get_thumbnail, statement by statement *)

Return(w, r) ==
    /\ pc' = [pc EXCEPT ![w] = "done"]
    /\ result' = [result EXCEPT ![w] = r]

Goto(w, l) ==
    /\ pc' = [pc EXCEPT ![w] = l]
    /\ UNCHANGED result

Did(w, o) == ops' = [ops EXCEPT ![w] = @ \cup o]

\* lines 58-70: entry; f says whether file_ is truthy
Call(w, f) ==
    /\ pc[w] = "start"
    /\ fileArg' = [fileArg EXCEPT ![w] = f]
    /\ afterSuccess' = [afterSuccess EXCEPT ![w] = f /\ succeeded]
    /\ IF f THEN Goto(w, "l89") ELSE Return(w, NoFileResult(dummyMode))
    /\ UNCHANGED <<env, shared, history, cached, found, raster, ops>>

\* lines 72-89: options, name, descriptor, cached = kvstore.get(thumbnail)
KvGet(w) ==
    /\ pc[w] = "l89"
    /\ cached' = [cached EXCEPT ![w] = (kvThumb # NoEntry)]
    /\ Did(w, {"kvget"})
    /\ Goto(w, "l90")
    /\ UNCHANGED <<env, shared, history, found, raster, afterSuccess, fileArg>>

\* lines 90-91: `and` evaluates cached.exists() only when cached is truthy
CheckCached(w) ==
    /\ pc[w] = "l90"
    /\ Did(w, IF cached[w] THEN {"exists"} ELSE {})
    /\ IF FastPathHit(cached[w], Exists(DestName))
         THEN /\ Return(w, "cached")
              /\ succeeded' = TRUE
         ELSE /\ Goto(w, "l95")
              /\ UNCHANGED succeeded
    /\ UNCHANGED <<env, shared, gens, updaters, cached, found, raster, afterSuccess, fileArg>>

\* line 95
CheckExists(w) ==
    /\ pc[w] = "l95"
    /\ Did(w, {"exists"})
    /\ found' = [found EXCEPT ![w] = IF Exists(DestName) THEN "yes" ELSE "no"]
    /\ Goto(w, IF NeedsGeneration(Exists(DestName)) THEN "l98" ELSE "l144")
    /\ UNCHANGED <<env, shared, history, cached, raster, afterSuccess, fileArg>>

\* lines 97-122: engine.get_image(source) with its IOError handler (99-110),
\* then get_image_info and get_image_size (113-115) and, when
\* options['autocrop'] is truthy, autocrop (118-119), each of which may raise
\* with no handler around it
Decode(w) ==
    /\ pc[w] = "l98"
    /\ \/ /\ srcState # "ok"
          /\ Did(w, {"decode"})
          /\ Return(w, DecodeFailResult(dummyMode))
          /\ UNCHANGED raster
       \/ /\ srcState = "ok"
          /\ raster' = [raster EXCEPT ![w] = "open"]
          /\ Did(w, {"decode"})
          /\ Return(w, "raised")
       \/ /\ srcState = "ok"
          /\ autocropOpt
          /\ raster' = [raster EXCEPT ![w] = "open"]
          /\ Did(w, {"decode", "info"})
          /\ Return(w, "raised")
       \/ /\ srcState = "ok"
          /\ raster' = [raster EXCEPT ![w] = "open"]
          /\ Did(w, {"decode", "info"} \cup IF autocropOpt THEN {"autocrop"} ELSE {})
          /\ Goto(w, "l129")
    /\ UNCHANGED <<env, shared, history, cached, found, afterSuccess, fileArg>>

\* lines 127-129: os.path.exists(directory)
DirCheck(w) ==
    /\ pc[w] = "l129"
    /\ Goto(w, IF ~dirExists THEN "l131" ELSE "l137")
    /\ UNCHANGED <<env, shared, history, cached, found, raster, ops, afterSuccess, fileArg>>

\* as OnMakedirsError, without the handler: the OSError reaches the caller
OnMakedirsError_Propagate(w) == Return(w, "raised")

\* lines 132-133: `except OSError: pass`
OnMakedirsError(w) == Goto(w, "l137")

\* lines 130-133: os.makedirs; it raises OSError when the directory exists by
\* now ("eexist": another call created it since line 129) or for any other
\* reason ("oserror")
Makedirs(w) ==
    /\ pc[w] = "l131"
    /\ \/ /\ ~dirExists
          /\ dirExists' = TRUE
          /\ Did(w, {"mkdir"})
          /\ Goto(w, "l137")
       \/ /\ Did(w, {IF dirExists THEN "eexist" ELSE "oserror"})
          /\ UNCHANGED dirExists
          /\ OnMakedirsError(w)
    /\ UNCHANGED <<env, files, kvThumb, kvSrc, history, cached, found, raster,
                   afterSuccess, fileArg>>

\* the finally block, lines 141-142: engine.cleanup(source_image)
Released(w) == [raster EXCEPT ![w] = "released"]

\* as OnCreateError, with the exception swallowed after the finally block
OnCreateError_Swallow(w) == Goto(w, "l144")

\* lines 136-142: try/finally has no except clause: after the finally block
\* the exception of _create_thumbnail goes on to the caller
OnCreateError(w) == Return(w, "raised")

\* lines 136-138: _create_thumbnail transforms, encodes and saves under the
\* name the storage picks; when it raises, the finally block runs and the
\* exception goes on to the caller
CreateThumbnail(w) ==
    /\ pc[w] = "l137"
    /\ \/ /\ files' = [files EXCEPT
                         ![SaveName(w, Exists(DestName), overwriteSafe)] = "new"]
          /\ dirExists' = TRUE
          /\ gens' = [gens EXCEPT ![w] = @ + 1]
          /\ Did(w, {"write"})
          /\ Goto(w, "l139")
          /\ UNCHANGED raster
       \/ /\ raster' = Released(w)
          /\ Did(w, {"cleanup"})
          /\ OnCreateError(w)
          /\ UNCHANGED <<files, dirExists, gens>>
    /\ UNCHANGED <<env, kvThumb, kvSrc, succeeded, updaters, cached, found,
                   afterSuccess, fileArg>>

\* lines 139-142: _create_alternative_resolutions (none configured by
\* default, so no further file), then the finally block; when it raises, the
\* finally block runs and the exception goes on to the caller
AltResolutions(w) ==
    /\ pc[w] = "l139"
    /\ raster' = Released(w)
    /\ \/ /\ Did(w, {"altres", "cleanup"})
          /\ Goto(w, "l144")
       \/ /\ Did(w, {"cleanup"})
          /\ Return(w, "raised")
    /\ UNCHANGED <<env, shared, history, cached, found, afterSuccess, fileArg>>

\* lines 144-149: options['mtime'] = os.path.getmtime(...), which raises when
\* the source file is gone; then kvstore.get_or_set(source)
KvGetOrSet(w) ==
    /\ pc[w] = "l144"
    /\ IF MtimeRaises(srcState)
         THEN /\ Return(w, "raised")
              /\ UNCHANGED <<ops, kvSrc>>
         ELSE /\ kvSrc' = GetOrSetValue(kvSrc, "new")
              /\ Did(w, {"mtime", "kv_src"})
              /\ Goto(w, "l150")
    /\ UNCHANGED <<env, files, dirExists, kvThumb, history, cached, found, raster,
                   afterSuccess, fileArg>>

\* lines 150-151: kvstore.set(thumbnail, source); return thumbnail
KvSet(w) ==
    /\ pc[w] = "l150"
    /\ kvThumb' = SetValue(kvThumb, "new")
    /\ Did(w, {"kv_thumb"})
    /\ updaters' = updaters \cup {w}
    /\ succeeded' = TRUE
    /\ Return(w, "thumbnail")
    /\ UNCHANGED <<env, files, dirExists, kvSrc, gens, cached, found, raster,
                   afterSuccess, fileArg>>

Next ==
    \E w \in Workers :
        \/ \E f \in BOOLEAN : Call(w, f)
        \/ KvGet(w)
        \/ CheckCached(w)
        \/ CheckExists(w)
        \/ Decode(w)
        \/ DirCheck(w)
        \/ Makedirs(w)
        \/ CreateThumbnail(w)
        \/ AltResolutions(w)
        \/ KvGetOrSet(w)
        \/ KvSet(w)

Spec == Init /\ [][Next]_vars

----------------------------------------------------------------------------
(* Vocabulary of the properties *)

RECURSIVE SumGens(_)
SumGens(S) == IF S = {} THEN 0
              ELSE LET w == CHOOSE x \in S : TRUE IN gens[w] + SumGens(S \ {w})

\* decode..write sequences completed so far, over all workers
TotalGens == SumGens(Workers)

\* what generating a rendition consists of (lines 97-142)
GenerationOps == {"decode", "info", "autocrop", "mkdir", "oserror", "eexist", "write",
                  "altres", "cleanup"}

\* writes to the kvstore (lines 149-150)
CacheWriteOps == {"kv_src", "kv_thumb"}

\* no rendition in storage and no entry for it in the cache before the first call
Cold0 == files0[DestName] = NoFile /\ kvThumb0 = NoEntry

\* call w found an entry for the rendition in the cache (line 89) and its
\* existence check on line 90 found no file
StaleSeen(w) == cached[w] /\ pc[w] \notin {"start", "l89", "l90"} /\ result[w] # "cached"

\* every call has returned a rendition
AllRendered == \A w \in Workers : pc[w] = "done" /\ result[w] \in {"thumbnail", "cached"}

\* storage and cache after one call alone, with a readable source, from the
\* state before the first call (lines 88-151 run once)
SeqFastPath == kvThumb0 # NoEntry /\ files0[DestName] # NoFile
SeqFiles == [n \in FileNames |->
               IF n # DestName THEN NoFile
               ELSE IF files0[DestName] = NoFile THEN "new" ELSE files0[DestName]]
SeqKvThumb == IF SeqFastPath THEN kvThumb0 ELSE "new"
SeqKvSrc == IF SeqFastPath \/ kvSrc0 # NoEntry THEN kvSrc0 ELSE "new"
SameAsOneCall == files = SeqFiles /\ kvThumb = SeqKvThumb /\ kvSrc = SeqKvSrc

----------------------------------------------------------------------------
(* Properties *)

\* C1 (no-overwrite): a call whose existence check on line 95 found the
\* destination file present performs no decode, no image-info read, no
\* autocrop, no directory creation, no write and no cleanup.
C1_NoOverwrite ==
    \A w \in Workers : found[w] = "yes" => ops[w] \cap GenerationOps = {}

C1_Witness ==
    \E w \in Workers : found[w] = "yes" /\ pc[w] = "done" /\ result[w] = "thumbnail"

\* C2 (cache short-circuit): a call made with a file after some call has
\* returned a rendition performs only the cache lookup and the existence
\* check of the fast path, and returns the cached rendition.
C2_CacheShortCircuit ==
    \A w \in Workers :
        afterSuccess[w] =>
            /\ ops[w] \subseteq {"kvget", "exists"}
            /\ pc[w] = "done" => result[w] = "cached"

C2_Witness ==
    \E w \in Workers : afterSuccess[w] /\ pc[w] = "done" /\ result[w] = "cached"

\* C3 as claimed (exactly-once generation): from a cold cache and an absent
\* rendition the decode..write sequence is completed at most once over all
\* workers, and exactly once when every call has returned a rendition.
C3_ExactlyOnce ==
    Cold0 => /\ TotalGens <= 1
             /\ AllRendered => TotalGens = 1

\* C3 as amended: from a cold cache and an absent rendition every call
\* completes the decode..write sequence at most once and only if its own
\* existence check found the rendition absent, and once some call has returned
\* a rendition the sequence has been completed at least once; so N concurrent
\* calls complete it between 1 and N times.
C3_AtLeastOnceAtMostOncePerCall ==
    Cold0 =>
        /\ \A w \in Workers : gens[w] <= 1 /\ (gens[w] = 1 => found[w] = "no")
        /\ (\E w \in Workers : result[w] \in {"thumbnail", "cached"}) => TotalGens >= 1
        /\ TotalGens <= Cardinality(Workers)

C3_Witness ==
    Cold0 /\ AllRendered /\ TotalGens = Cardinality(Workers)

\* C4 as claimed (concurrent convergence): with a readable source, once every
\* call has returned a rendition, storage and cache are what one call alone
\* would have left.
C4_Convergence ==
    (srcState = "ok" /\ AllRendered) => SameAsOneCall

\* C4 as amended: the same, for a storage that overwrites an existing name in
\* place.
C4_ConvergenceOverwriteSafe ==
    (srcState = "ok" /\ overwriteSafe /\ AllRendered) => SameAsOneCall

C4_Witness ==
    srcState = "ok" /\ overwriteSafe /\ AllRendered /\ TotalGens >= 2

\* C5 (unreadable source never raises): with a missing or undecodable source
\* no call ends in an exception, whatever the cache and the storage hold.
C5_UnreadableNeverRaises ==
    srcState # "ok" => \A w \in Workers : result[w] # "raised"

\* C6 (decode-failure outcome): a call that found the rendition absent and
\* whose decode failed returns the dummy in dummy mode and otherwise the
\* descriptor of a rendition that does not exist; it has written neither a
\* file nor a cache entry and has created no directory.
C6_DecodeFailureOutcome ==
    \A w \in Workers :
        (pc[w] = "done" /\ found[w] = "no" /\ srcState # "ok") =>
            /\ result[w] = IF dummyMode THEN "dummy" ELSE "notfound"
            /\ ops[w] = {"kvget", "exists", "decode"}
            /\ ~Exists(DestName)
            /\ kvThumb = kvThumb0 /\ kvSrc = kvSrc0

C6_Witness ==
    \E w \in Workers :
        /\ pc[w] = "done" /\ found[w] = "no" /\ srcState # "ok"
        /\ result[w] = "notfound"

\* C7 (missing source reference): a call without a file reference returns
\* the dummy in dummy mode and None otherwise, and has neither read nor
\* written the cache or the storage.
C7_MissingReference ==
    \A w \in Workers :
        (pc[w] # "start" /\ ~fileArg[w]) =>
            /\ pc[w] = "done"
            /\ result[w] = IF dummyMode THEN "dummy" ELSE "None"
            /\ ops[w] = {}

C7_Witness ==
    \E w \in Workers : pc[w] = "done" /\ ~fileArg[w] /\ result[w] = "dummy"

\* C8 (cache update protocol): a call that returns from line 151 has done
\* the get-or-set of the source and the set of the rendition; a source entry
\* that was stored is never replaced; and once the pair has been executed,
\* by however many calls, the cache is what one execution leaves: the
\* rendition entry new, the source entry the stored one, or new if there
\* was none.
C8_CacheUpdateProtocol ==
    /\ \A w \in Workers :
         result[w] = "thumbnail" => (CacheWriteOps \subseteq ops[w] /\ w \in updaters)
    /\ kvSrc0 # NoEntry => kvSrc = kvSrc0
    /\ updaters # {} =>
         /\ kvThumb = "new"
         /\ kvSrc = IF kvSrc0 = NoEntry THEN "new" ELSE kvSrc0

C8_Witness ==
    Cardinality(updaters) >= 2 /\ kvSrc0 = "old" /\ kvThumb0 = "old"

\* C9 as claimed (stale-entry tolerance): the cached entry is not returned
\* while the file is missing, and a call that found an entry in the cache and
\* no file in storage has, when it returns, left the file in storage and the
\* entry rewritten.
C9_StaleRegenerates ==
    \A w \in Workers :
        /\ result[w] = "cached" => Exists(DestName)
        /\ (StaleSeen(w) /\ pc[w] = "done" /\ result[w] # "raised") =>
               Exists(DestName) /\ kvThumb = "new"

\* C9 as amended: the same when the source decodes, the file then having
\* been written by this call unless its check on line 95 found it written
\* meanwhile; when the source does not decode, the call returns the dummy or
\* the descriptor of a rendition that does not exist, and the stale entry
\* stays.
C9_StaleRegeneratesIfDecodable ==
    \A w \in Workers :
        /\ result[w] = "cached" => Exists(DestName)
        /\ (StaleSeen(w) /\ pc[w] = "done" /\ result[w] # "raised") =>
               IF srcState = "ok"
                 THEN /\ result[w] = "thumbnail"
                      /\ Exists(DestName) /\ kvThumb = "new"
                      /\ found[w] = "no" => "write" \in ops[w]
                 ELSE /\ result[w] = IF dummyMode THEN "dummy" ELSE "notfound"
                      /\ ~Exists(DestName) /\ kvThumb = kvThumb0

C9_Witness ==
    /\ srcState = "ok"
    /\ \E w \in Workers :
         /\ StaleSeen(w) /\ pc[w] = "done"
         /\ result[w] = "thumbnail" /\ "write" \in ops[w]

\* C10 (guaranteed raster release): no call ends with its decoded raster
\* still open.
C10_RasterReleased ==
    \A w \in Workers : pc[w] = "done" => raster[w] # "open"

\* C15 (cache implies file): unless the state before the first call already
\* had an entry without its file, an entry for the rendition in the cache
\* implies the file in storage, in every state, whatever calls fail on decode
\* or raise during creation; an entry written by a call always implies the
\* file; and a call writes the entry only after it has seen the file on line
\* 95 or has itself finished writing it.
C15_CacheImpliesFile ==
    /\ (kvThumb0 # NoEntry => files0[DestName] # NoFile) =>
           (kvThumb # NoEntry => Exists(DestName))
    /\ kvThumb = "new" => Exists(DestName)
    /\ \A w \in Workers :
         "kv_thumb" \in ops[w] => (found[w] = "yes" \/ "write" \in ops[w])

C15_Witness ==
    /\ Cold0 /\ kvThumb = "new"
    /\ \E w1, w2 \in Workers :
         /\ result[w1] = "raised" /\ "cleanup" \in ops[w1]
         /\ result[w2] = "thumbnail"

\* C16 (directory-creation race): a call whose os.makedirs failed, the
\* directory existing by then or otherwise, goes on to the encode-and-write
\* step; if it ends in an exception, that exception came from the creation
\* steps inside the try/finally, not from os.makedirs.
C16_DirectoryRace ==
    \A w \in Workers :
        ops[w] \cap {"eexist", "oserror"} # {} =>
            /\ pc[w] \in {"l137", "l139", "l144", "l150", "done"}
            /\ result[w] = "raised" => "cleanup" \in ops[w]

C16_Witness ==
    \E w1, w2 \in Workers :
        /\ "mkdir" \in ops[w1] /\ "eexist" \in ops[w2]
        /\ "write" \in ops[w1] /\ "write" \in ops[w2]

----------------------------------------------------------------------------
(* The option merge of get_thumbnail, lines 72-87, and the later additions
   to the options, lines 114 and 144 *)

\* largest option value drawn
MaxVal == 2

Vals == 1..MaxVal

\* an option key that is not in the dict
Absent == 0

\* the keys a caller, default_options or extra_options may name
OptKeys == {"format", "blur"}
AllKeys == OptKeys \cup {"image_info", "mtime"}

\* the state of get_thumbnail's shared world when no call is made
NoCalls ==
    /\ srcState = "ok" /\ dummyMode = FALSE /\ autocropOpt = FALSE /\ overwriteSafe = TRUE
    /\ files = [n \in FileNames |-> NoFile]
    /\ dirExists = FALSE
    /\ kvThumb = NoEntry /\ kvSrc = NoEntry
    /\ pc = [w \in Workers |-> "start"]
    /\ fileArg = [w \in Workers |-> FALSE]
    /\ cached = [w \in Workers |-> FALSE]
    /\ found = [w \in Workers |-> "unk"]
    /\ raster = [w \in Workers |-> "none"]
    /\ ops = [w \in Workers |-> {}]
    /\ result = [w \in Workers |-> "none"]
    /\ afterSuccess = [w \in Workers |-> FALSE]
    /\ succeeded = FALSE
    /\ gens = [w \in Workers |-> 0]
    /\ updaters = {}
    /\ files0 = files /\ kvThumb0 = kvThumb /\ kvSrc0 = kvSrc

orch == <<srcState, dummyMode, autocropOpt, overwriteSafe, files0, kvThumb0, kvSrc0,
          shared, locals, history>>

\* dict.setdefault(k, v)
SetDefault(o, k, v) == IF o[k] = Absent THEN [o EXCEPT ![k] = v] ELSE o

\* `for key, value in d.items(): options.setdefault(key, value)` over the keys K
RECURSIVE SetDefaults(_, _, _)
SetDefaults(o, K, v) ==
    IF K = {} THEN o
    ELSE LET k == CHOOSE x \in K : TRUE
         IN SetDefaults(SetDefault(o, k, v[k]), K \ {k}, v)

\* as ExtraApplies, without the comparison with the baseline
ExtraApplies_Always(value, baseline) == TRUE

\* line 84: `if value != getattr(default_settings, attr)`
ExtraApplies(value, baseline) == value # baseline

\* lines 73-74: options.setdefault('format', self._get_format(source))
\* when settings.THUMBNAIL_PRESERVE_FORMAT
WithPreservedFormat(o, preserve, detected) ==
    IF preserve THEN SetDefault(o, "format", detected) ELSE o

\* lines 76-77: default_options; d[k] = Absent says default_options has no key k
WithDefaults(o, d) == SetDefaults(o, {k \in OptKeys : d[k] # Absent}, d)

\* lines 82-85: extra_options E, with the settings' values and the baseline's
WithExtras(o, E, setting, baseline) ==
    SetDefaults(o, {k \in E : ExtraApplies(setting[k], baseline[k])}, setting)

\* lines 72-85
MergedOptions(r) ==
    WithExtras(WithDefaults(WithPreservedFormat(r.caller, r.preserve, r.detected),
                            r.defaults),
               r.extras, r.setting, r.baseline)

\* line 87 with line 33: the digest of the options as they are when the name
\* is computed (source key and geometry are fixed here); a digest is taken to
\* tell any two option dicts apart
OptionsKey(o) == o

InitOptions ==
    /\ NoCalls
    /\ nm = Off /\ tf = Off
    /\ \E c \in [OptKeys -> {Absent} \cup Vals], d \in [OptKeys -> {Absent} \cup Vals],
          E \in SUBSET OptKeys, sv \in [OptKeys -> Vals], bv \in [OptKeys -> Vals],
          p \in BOOLEAN, f \in Vals :
         /\ \A k \in OptKeys \ E : sv[k] = 1 /\ bv[k] = 1
         /\ ~p => f = 1
         /\ om = [stage |-> "args",
                  caller |-> [k \in AllKeys |-> IF k \in OptKeys THEN c[k] ELSE Absent],
                  preserve |-> p, detected |-> f, defaults |-> d,
                  extras |-> E, setting |-> sv, baseline |-> bv,
                  options |-> [k \in AllKeys |-> IF k \in OptKeys THEN c[k] ELSE Absent],
                  name |-> [k \in AllKeys |-> Absent]]

\* lines 72-85
MergeOptions ==
    /\ om.stage = "args"
    /\ om' = [om EXCEPT !.stage = "merged", !.options = MergedOptions(om)]
    /\ UNCHANGED <<orch, nm, tf>>

\* line 87
ComputeName ==
    /\ om.stage = "merged"
    /\ om' = [om EXCEPT !.stage = "named", !.name = OptionsKey(om.options)]
    /\ UNCHANGED <<orch, nm, tf>>

\* as AfterImageInfo, with the name computed after the image info is added
AfterImageInfo_Renamed(r, v) ==
    [r EXCEPT !.stage = "info", !.options["image_info"] = v,
              !.name = OptionsKey([r.options EXCEPT !["image_info"] = v])]

\* lines 113-114: options['image_info'] = image_info
AfterImageInfo(r, v) == [r EXCEPT !.stage = "info", !.options["image_info"] = v]

\* lines 113-114, in a call that generates the rendition
InjectImageInfo ==
    /\ om.stage = "named"
    /\ \E v \in Vals : om' = AfterImageInfo(om, v)
    /\ UNCHANGED <<orch, nm, tf>>

\* line 144, after generation or, when the file was found on line 95, without
InjectMtime ==
    /\ om.stage \in {"named", "info"}
    /\ \E v \in Vals : om' = [om EXCEPT !.stage = "done", !.options["mtime"] = v]
    /\ UNCHANGED <<orch, nm, tf>>

NextOptions ==
    \/ MergeOptions
    \/ ComputeName
    \/ InjectImageInfo
    \/ InjectMtime

SpecOptions == InitOptions /\ [][NextOptions]_vars

\* the value the merge gives key k, in closed form
ExpectedOption(k, withExtras) ==
    IF om.caller[k] # Absent THEN om.caller[k]
    ELSE IF k = "format" /\ om.preserve THEN om.detected
    ELSE IF om.defaults[k] # Absent THEN om.defaults[k]
    ELSE IF withExtras /\ k \in om.extras /\ om.setting[k] # om.baseline[k]
         THEN om.setting[k]
    ELSE Absent

ExpectedOptions(withExtras) ==
    [k \in AllKeys |-> IF k \in OptKeys THEN ExpectedOption(k, withExtras) ELSE Absent]

\* C11 (option merge precedence): each key's merged value is the caller's if
\* given, else for format with preserve-format the detected format, else the
\* component default if there is one, else the configured extra when it
\* differs from the baseline; and when every configured extra equals its
\* baseline, options and name are those of a configuration without extras.
C11_MergePrecedence ==
    om.stage \in {"merged", "named", "info", "done"} =>
        /\ \A k \in OptKeys : om.options[k] = ExpectedOption(k, TRUE)
        /\ (\A k \in om.extras : om.setting[k] = om.baseline[k]) =>
              /\ \A k \in OptKeys : om.options[k] = ExpectedOption(k, FALSE)
              /\ om.stage # "merged" => om.name = OptionsKey(ExpectedOptions(FALSE))

C11_Witness ==
    /\ om.stage = "named"
    /\ om.extras = OptKeys
    /\ \A k \in OptKeys : om.setting[k] = om.baseline[k]
    /\ om.caller["blur"] = Absent /\ om.defaults["blur"] = Absent
    /\ om.caller["format"] = Absent /\ om.preserve /\ om.defaults["format"] # Absent
    /\ om.detected # om.defaults["format"]

\* C17 (name stability): the name is the digest of the merged options as
\* they are before image_info and mtime are added, so it is a function of
\* the caller's options and the configuration alone: the same in a call that
\* generates (image_info added) and in one that finds the file (not added),
\* whatever image_info and mtime are.
C17_NameStability ==
    om.stage \in {"named", "info", "done"} =>
        /\ om.name = OptionsKey(ExpectedOptions(TRUE))
        /\ om.name["image_info"] = Absent /\ om.name["mtime"] = Absent

C17_Witness ==
    /\ om.stage = "done"
    /\ om.options["image_info"] # Absent /\ om.options["mtime"] # Absent
    /\ om.name["image_info"] = Absent

----------------------------------------------------------------------------
(* The namer, _get_thumbnail_filename, lines 25-53.  A string is the
   sequence of its characters. *)

\* longest source name drawn
MaxLen == 4

\* a lowercase letter, an uppercase letter, a space, the dot and os.sep
Alphabet == {"a", "B", " ", ".", "/"}

Sep == "/"

Names == UNION {[1..n -> Alphabet] : n \in 1..MaxLen}

\* source.storage.path(''): the storage's root directory
Root == <<"/", "a">>

\* the geometry string
Geometry == <<"1", "x", "1">>

\* values of settings.THUMBNAIL_PREFIX
Prefixes == {<<"a", "/">>, <<"a">>}

\* digests returned by tokey, as far as they are used (their first four
\* characters)
Keys == {<<"0", "1", "2", "3">>, <<"c", "d", "e", "f">>}

\* values of options['format']; "absent" says the key is not in the dict
Formats == {"absent", "JPEG", "PNG", "BMP"}

\* sorl.thumbnail.base.EXTENSIONS, as far as used here
EXTENSIONS == [f \in {"JPEG", "PNG"} |->
                  IF f = "JPEG" THEN <<"j", "p", "g">> ELSE <<"p", "n", "g">>]

\* str.startswith
StartsWith(s, p) == Len(s) >= Len(p) /\ SubSeq(s, 1, Len(p)) = p

\* s[n:]
Drop(s, n) == SubSeq(s, n + 1, Len(s))

\* l[:-1]
Front(l) == SubSeq(l, 1, Len(l) - 1)

\* l[-1]
Last(l) == l[Len(l)]

\* str.split(sep): never empty, the parts may be
RECURSIVE Split(_, _)
Split(s, sep) ==
    IF \E i \in 1..Len(s) : s[i] = sep
    THEN LET i == CHOOSE j \in 1..Len(s) : s[j] = sep /\ \A h \in 1..(j - 1) : s[h] # sep
         IN <<SubSeq(s, 1, i - 1)>> \o Split(Drop(s, i), sep)
    ELSE <<s>>

\* sep.join(l)
RECURSIVE Join(_, _)
Join(l, sep) ==
    IF l = <<>> THEN <<>>
    ELSE IF Len(l) = 1 THEN l[1]
    ELSE l[1] \o <<sep>> \o Join(Tail(l), sep)

\* line 29: re.sub('^<root><sep>?', '', source.name)
StripRoot(s) ==
    IF StartsWith(s, Root)
    THEN LET r == Drop(s, Len(Root))
         IN IF r # <<>> /\ r[1] = Sep THEN Tail(r) ELSE r
    ELSE s

\* as InsertBeforeLast, appending instead
InsertBeforeLast_Append(l, x) == Append(l, x)

\* list.insert(-1, x), lines 30, 34, 35
InsertBeforeLast(l, x) == IF l = <<>> THEN <<x>> ELSE Front(l) \o <<x, Last(l)>>

Lower(c) == IF c = "B" THEN "b" ELSE c

\* str.strip() of spaces
RECURSIVE StripSpaces(_)
StripSpaces(s) ==
    IF s = <<>> THEN s
    ELSE IF s[1] = " " THEN StripSpaces(Tail(s))
    ELSE IF Last(s) = " " THEN StripSpaces(Front(s))
    ELSE s

\* re.sub('[-\s]+', '-', s)
RECURSIVE Hyphenate(_)
Hyphenate(s) ==
    IF s = <<>> THEN s
    ELSE IF s[1] \in {" ", "-"}
         THEN IF Len(s) > 1 /\ s[2] \in {" ", "-"}
              THEN Hyphenate(Tail(s))
              ELSE <<"-">> \o Hyphenate(Tail(s))
    ELSE <<s[1]>> \o Hyphenate(Tail(s))

\* django's slugify on these characters: drop what is neither a word
\* character, a space nor a hyphen, strip, lowercase, hyphenate the runs
Slugify(s) ==
    LET kept == SelectSeq(s, LAMBDA c : c \notin {".", "/"})
        stripped == StripSpaces(kept)
        lowered == [i \in 1..Len(stripped) |-> Lower(stripped[i])]
    IN Hyphenate(lowered)

\* line 38 and the stem of line 40: '.'.join(name.split('.')[:-1])
Stem(name) == Join(Front(Split(name, ".")), ".")

\* the part after the last dot
Ext(name) == Last(Split(name, "."))

\* as OnFormatError, with the stem slugified and the extension kept
OnFormatError_Slugified(last) == Slugify(Stem(last)) \o <<".">> \o Ext(last)

\* lines 42-44: `except: pass`, the filename stays what it was
OnFormatError(last) == last

\* lines 38-44
FileName(last, format) ==
    IF format \in DOMAIN EXTENSIONS
    THEN Slugify(Stem(last)) \o <<".">> \o EXTENSIONS[format]
    ELSE OnFormatError(last)

\* lines 29-46
ComputedPath(name, format, key) ==
    LET p0 == Split(StripRoot(name), Sep)
        p1 == InsertBeforeLast(p0, Geometry)
        p2 == InsertBeforeLast(p1, SubSeq(key, 1, 2))
        p3 == InsertBeforeLast(p2, SubSeq(key, 3, 4))
        p4 == [p3 EXCEPT ![Len(p3)] = FileName(Last(p3), format)]
    IN Join(p4, Sep)

\* as NeedsPrefix, prefixing always
NeedsPrefix_Always(path, prefix) == TRUE

\* line 50
NeedsPrefix(path, prefix) == ~StartsWith(path, prefix)

\* lines 50-53
Prefixed(path, prefix) == IF NeedsPrefix(path, prefix) THEN prefix \o path ELSE path

InitNamer ==
    /\ NoCalls
    /\ om = Off /\ tf = Off
    /\ \E n \in Names, f \in Formats, k \in Keys, p \in Prefixes :
         nm = [stage |-> "args", name |-> n, format |-> f, key |-> k, prefix |-> p,
               path |-> <<>>, out |-> <<>>, key2 |-> k, path2 |-> <<>>, out2 |-> <<>>]

\* _get_thumbnail_filename(source, geometry, options)
NameSource ==
    /\ nm.stage = "args"
    /\ LET path == ComputedPath(nm.name, nm.format, nm.key)
       IN nm' = [nm EXCEPT !.stage = "named", !.path = path,
                           !.out = Prefixed(path, nm.prefix)]
    /\ UNCHANGED <<orch, om, tf>>

\* _get_thumbnail_filename on a source whose name is the path just returned
NameAgain ==
    /\ nm.stage = "named"
    /\ \E k \in Keys :
         LET path == ComputedPath(nm.out, nm.format, k)
         IN nm' = [nm EXCEPT !.stage = "renamed", !.key2 = k, !.path2 = path,
                             !.out2 = Prefixed(path, nm.prefix)]
    /\ UNCHANGED <<orch, om, tf>>

NextNamer ==
    \/ NameSource
    \/ NameAgain

SpecNamer == InitNamer /\ [][NextNamer]_vars

\* the segments of the source name below the storage root
SourceSegments == Split(StripRoot(nm.name), Sep)

\* the filename the claims expect when the format is in the table
SlugFileName == Slugify(Stem(Last(SourceSegments))) \o <<".">> \o EXTENSIONS[nm.format]

\* C12 (path layout): the returned path starts with the prefix, and it or
\* what follows the prefix is, split at the separator, the source's
\* directory segments, the geometry, key[0:2], key[2:4] and the filename
\* (slugified stem and mapped extension when the format is in the table, else
\* the source's filename), in that order.
C12_PathLayout ==
    nm.stage \in {"named", "renamed"} =>
        /\ StartsWith(nm.out, nm.prefix)
        /\ nm.out \in {nm.path, nm.prefix \o nm.path}
        /\ LET segs == Split(nm.path, Sep)
               n == Len(SourceSegments)
           IN /\ Len(segs) = n + 3
              /\ SubSeq(segs, 1, n - 1) = Front(SourceSegments)
              /\ segs[n] = Geometry
              /\ segs[n + 1] = SubSeq(nm.key, 1, 2)
              /\ segs[n + 2] = SubSeq(nm.key, 3, 4)
              /\ nm.format \in DOMAIN EXTENSIONS => segs[n + 3] = SlugFileName
              /\ nm.format \notin DOMAIN EXTENSIONS => segs[n + 3] = Last(SourceSegments)

C12_Witness ==
    /\ nm.stage = "named"
    /\ nm.name = <<"B", "/", "B", ".">>
    /\ nm.format = "JPEG" /\ nm.prefix = <<"a", "/">> /\ nm.key = <<"0", "1", "2", "3">>
    /\ nm.out = <<"a", "/", "B", "/", "1", "x", "1", "/", "0", "1", "/", "2", "3", "/",
                  "b", ".", "j", "p", "g">>

\* C13 as stated (idempotent prefixing): the namer applied to its own output
\* returns that output unchanged, and no returned path starts with the prefix
\* twice.
C13_Idempotent ==
    /\ nm.stage = "renamed" => nm.out2 = nm.out
    /\ nm.stage \in {"named", "renamed"} => ~StartsWith(nm.out, nm.prefix \o nm.prefix)

\* C13 as amended: the prefix is prepended exactly when the computed path does
\* not already start with it, so the namer applied to its own output prepends
\* nothing; it does insert the geometry and the two key segments once more, so
\* the second path is three segments longer than the first.
C13_NoSecondPrefix ==
    /\ nm.stage \in {"named", "renamed"} =>
          /\ StartsWith(nm.out, nm.prefix)
          /\ nm.out = IF StartsWith(nm.path, nm.prefix) THEN nm.path
                      ELSE nm.prefix \o nm.path
    /\ nm.stage = "renamed" =>
          /\ nm.out2 = nm.path2
          /\ Len(Split(nm.out2, Sep)) = Len(Split(nm.out, Sep)) + 3
          /\ nm.out2 # nm.out

C13_Witness ==
    /\ nm.stage = "renamed"
    /\ nm.name = <<"B", ".", "a">> /\ nm.format = "PNG" /\ nm.prefix = <<"a", "/">>
    /\ nm.out = nm.prefix \o nm.path
    /\ nm.out2 = nm.path2
    /\ StartsWith(nm.out2, nm.prefix) /\ ~StartsWith(nm.out2, nm.prefix \o nm.prefix)

\* C14 as stated (empty-stem fallback): the filename component of every
\* computed path has a non-empty stem.
C14_NonEmptyStem ==
    nm.stage \in {"named", "renamed"} =>
        LET fn == Last(Split(nm.out, Sep))
        IN fn # <<>> /\ fn[1] # "."

\* C18 as stated (format absent or unrecognized): the filename is the
\* slugified stem of the source filename followed by the source's extension.
C18_SlugifiedStemOriginalExt ==
    (nm.stage \in {"named", "renamed"} /\ nm.format \notin DOMAIN EXTENSIONS) =>
        Last(Split(nm.out, Sep)) =
            Slugify(Stem(Last(SourceSegments))) \o <<".">> \o Ext(Last(SourceSegments))

\* C18 as amended: when the format is missing or not in the table, the
\* filename is the source's filename as it is, stem not slugified.
C18_OriginalFileNameKept ==
    (nm.stage \in {"named", "renamed"} /\ nm.format \notin DOMAIN EXTENSIONS) =>
        Last(Split(nm.out, Sep)) = Last(SourceSegments)

C18_Witness ==
    /\ nm.stage = "named"
    /\ nm.format = "BMP"
    /\ nm.name = <<"B", " ", ".", "a">>
    /\ Slugify(Stem(nm.name)) = <<"b">>
    /\ Last(Split(nm.out, Sep)) = nm.name

----------------------------------------------------------------------------
(* The transforms, lines 152-269.  A raster is its size and what has been
   done to its pixels; a transform returns a raster or raises. *)

\* largest width and height drawn
MaxDim == 4

Dims == 1..MaxDim
Sizes == Dims \X Dims

Transforms == {"autocrop", "fit", "invert", "pad", "round", "ltbx"}

\* lines 178-182
ROUND_VALID_OPTIONS == {"round", "round-box", "round-wide"}

\* the option keys each transform looks for
Triggers ==
    [t \in Transforms |->
        CASE t = "autocrop" -> {"autocrop"}
          [] t = "fit" -> {"fit_x", "fit_y"}
          [] t = "invert" -> {"invert"}
          [] t = "pad" -> {"pad"}
          [] t = "round" -> ROUND_VALID_OPTIONS
          [] t = "ltbx" -> {"ltbx"}]

TriggerKeys == UNION {Triggers[t] : t \in Transforms}

\* what an options mapping holds for a key
Presence == {"absent", "falsy", "truthy"}

\* the options that name only keys of K
OptsOver(K) ==
    {[k \in TriggerKeys |-> IF k \in K THEN o[k] ELSE "absent"] : o \in [K -> Presence]}

\* `k in opts`
InOpts(o, k) == o[k] # "absent"

\* the names the module defines or imports at top level that the transforms
\* read (lines 1-16, 178, 185)
ModuleGlobals == {"os", "floor", "Image", "ImageChops", "ImageEnhance", "ImageOps",
                  "ROUND_VALID_OPTIONS", "THUMBNAIL_PADDING_COLOUR"}

Raster(size, look) == [size |-> size, look |-> look]

Returned(r) == [outcome |-> "returned", raster |-> r]
Raised(e) == [outcome |-> "raised", error |-> e]

\* floor((a - b) / 2), lines 222-223 and 264-265
HalfGap(a, b) == (a - b) \div 2

\* lines 152-172; bbox is what getbbox gives for the image's content: "none"
\* or the size of the box
autocrop(im, opts, bbox) ==
    IF InOpts(opts, "autocrop")
    THEN IF bbox # "none" /\ bbox # im.size
         THEN Returned(Raster(bbox, "cropped"))
         ELSE Returned(im)
    ELSE Returned(im)

\* lines 188-203; the float sizes are taken as PIL truncates them
fit(im, req, opts) ==
    IF InOpts(opts, "fit_y")
    THEN LET size == <<(req[2] * im.size[1]) \div im.size[2], req[2]>>
         IN Returned(IF size = im.size THEN im ELSE Raster(size, "resized"))
    ELSE IF InOpts(opts, "fit_x")
    THEN LET size == <<req[1], (req[1] * im.size[2]) \div im.size[1]>>
         IN Returned(IF size = im.size THEN im ELSE Raster(size, "resized"))
    ELSE Returned(im)

\* lines 207-211
invert(im, opts) ==
    IF InOpts(opts, "invert") THEN Returned(Raster(im.size, "inverted")) ELSE Returned(im)

\* lines 215-229
pad(im, req, opts) ==
    IF InOpts(opts, "pad") /\ im.size # req
    THEN Returned([size |-> req, look |-> "padded", inner |-> im.size,
                   left |-> HalfGap(req[1], im.size[1]),
                   top |-> HalfGap(req[2], im.size[2])])
    ELSE Returned(im)

\* lines 233-247: on Python 3 filter() returns an iterator and [0] raises
\* TypeError, which `except IndexError` does not catch; on Python 2 a round
\* key in opts leads to the read of THUMBNAIL_ROUND_MASKS_PATH
round(im, opts, py3) ==
    IF py3 THEN Raised("TypeError")
    ELSE IF \E k \in ROUND_VALID_OPTIONS : InOpts(opts, k)
    THEN IF "THUMBNAIL_ROUND_MASKS_PATH" \in ModuleGlobals
         THEN Returned(Raster(im.size, "masked"))
         ELSE Raised("NameError")
    ELSE Returned(im)

\* lines 258-262: the size the image is resized to
LtbxInner(size, req) ==
    IF req[1] * size[2] > size[1] * req[2]
    THEN <<(req[2] * size[1]) \div size[2], req[2]>>
    ELSE <<req[1], (req[1] * size[2]) \div size[1]>>

\* lines 252-269
ltbx(im, req, opts) ==
    IF InOpts(opts, "ltbx") /\ im.size # req
    THEN LET inner == LtbxInner(im.size, req)
         IN IF "THUMBNAIL_PADDING_COLOR" \in ModuleGlobals
            THEN Returned([size |-> req, look |-> "letterboxed", inner |-> inner,
                           left |-> HalfGap(req[1], inner[1]),
                           top |-> HalfGap(req[2], inner[2])])
            ELSE Raised("NameError")
    ELSE Returned(im)

InitTransforms ==
    /\ NoCalls
    /\ om = Off /\ nm = Off
    /\ \E size \in Sizes, req \in Sizes, py3 \in BOOLEAN :
         tf = [stage |-> "args", im |-> Raster(size, "source"), req |-> req, py3 |-> py3]

\* the record of one application of transform t with options o
Applied(t, o, res) ==
    [stage |-> "done", im |-> tf.im, req |-> tf.req, py3 |-> tf.py3,
     fn |-> t, opts |-> o, res |-> res]

Autocrop ==
    /\ tf.stage = "args"
    /\ \E o \in OptsOver(Triggers["autocrop"]), bbox \in {"none"} \cup Sizes :
         /\ bbox # "none" => bbox[1] <= tf.im.size[1] /\ bbox[2] <= tf.im.size[2]
         /\ tf' = Applied("autocrop", o, autocrop(tf.im, o, bbox))
    /\ UNCHANGED <<orch, om, nm>>

Fit ==
    /\ tf.stage = "args"
    /\ \E o \in OptsOver(Triggers["fit"]) : tf' = Applied("fit", o, fit(tf.im, tf.req, o))
    /\ UNCHANGED <<orch, om, nm>>

Invert ==
    /\ tf.stage = "args"
    /\ \E o \in OptsOver(Triggers["invert"]) : tf' = Applied("invert", o, invert(tf.im, o))
    /\ UNCHANGED <<orch, om, nm>>

Pad ==
    /\ tf.stage = "args"
    /\ \E o \in OptsOver(Triggers["pad"]) : tf' = Applied("pad", o, pad(tf.im, tf.req, o))
    /\ UNCHANGED <<orch, om, nm>>

Round ==
    /\ tf.stage = "args"
    /\ \E o \in OptsOver(Triggers["round"]) : tf' = Applied("round", o, round(tf.im, o, tf.py3))
    /\ UNCHANGED <<orch, om, nm>>

Ltbx ==
    /\ tf.stage = "args"
    /\ \E o \in OptsOver(Triggers["ltbx"]) : tf' = Applied("ltbx", o, ltbx(tf.im, tf.req, o))
    /\ UNCHANGED <<orch, om, nm>>

NextTransforms ==
    \/ Autocrop
    \/ Fit
    \/ Invert
    \/ Pad
    \/ Round
    \/ Ltbx

SpecTransforms == InitTransforms /\ [][NextTransforms]_vars

\* C19 as stated (transform activation): a transform whose trigger keys are
\* all absent or present with a falsy value returns its input raster
\* unchanged.
C19_ActivationNeedsTruthy ==
    (tf.stage = "done" /\ \A k \in Triggers[tf.fn] : tf.opts[k] \in {"absent", "falsy"}) =>
        tf.res = Returned(tf.im)

\* C20 as stated (letterbox result): with the ltbx option active and the
\* image's size different from the requested W x H, ltbx returns, without
\* raising, a W x H canvas holding the image scaled with its aspect ratio
\* kept (width W, height int(W*h/w) when W/H <= w/h, else height H, width
\* int(H*w/h)), pasted at (floor((W-w')/2), floor((H-h')/2)).
C20_LetterboxResult ==
    (/\ tf.stage = "done" /\ tf.fn = "ltbx"
     /\ tf.opts["ltbx"] = "truthy" /\ tf.im.size # tf.req) =>
        LET w == tf.im.size[1]
            h == tf.im.size[2]
            W == tf.req[1]
            H == tf.req[2]
            inner == IF W * h <= w * H THEN <<W, (W * h) \div w>> ELSE <<(H * w) \div h, H>>
        IN /\ tf.res.outcome = "returned"
           /\ tf.res.raster.size = tf.req
           /\ tf.res.raster.inner = inner
           /\ tf.res.raster.left = (W - inner[1]) \div 2
           /\ tf.res.raster.top = (H - inner[2]) \div 2

====
